---------------------------- MODULE Spec2Model ----------------------------
(***************************************************************************)
(* Humming: the hash-indexed bucket (src/db/bucket.cpp, src/db/bucket.h)   *)
(* and the buffered file handles it is built on (src/util/io).             *)
(*                                                                         *)
(* Scale.  A file is a sequence of cells; one cell stands for one size_t   *)
(* (8 bytes in the source) or for one byte of a key or value.  The layout  *)
(* constants are the source's expressions evaluated at a small sector:     *)
(* k_sector_size = 8 cells and k_hashes_num = 2 give k_entries_num = 2 by  *)
(* the formula of bucket.h, and sizeof(IndexPage) = k_sector_size as in    *)
(* the source.  size_t arithmetic is modulo Word = HalfWord^2 (2^64 in the *)
(* source, 2^8 here); the landing estimate uses the upper half of the hash *)
(* exactly as bucket.cpp:78 does.                                          *)
(***************************************************************************)
EXTENDS Integers, Sequences, FiniteSets, TLC

\* ------------------------------------------------------------- bounds --
MaxBatch == 5      \* records in the batch of one insert (single-file runs)
MaxFiles == 2      \* files in a bucket (multi-file runs)
MaxWriteCalls == 3 \* kernel writes of one insert that may be made to fail
MaxOps == 5        \* member calls made on a file handle used on its own

\* ------------------------------------------------- program constants --
k_sector_size == 8                       \* common.h:8   (4096 bytes)
k_hashes_num  == 2                       \* bucket.h:50  (8)
k_entries_num == (k_sector_size - 2 * k_hashes_num) \div 2   \* bucket.h:52-54
IndexPageSize == 2 * k_hashes_num + 2 * k_entries_num        \* sizeof(IndexPage)
HalfWord == 16                           \* size_t(1) << 32, bucket.cpp:78
Word     == HalfWord * HalfWord          \* size_t wraps modulo Word

Min(a, b) == IF a < b THEN a ELSE b
Wrap(x)   == x % Word                    \* unsigned arithmetic of size_t
Fill(n, v) == [i \in 1..n |-> v]
Range(s)  == {s[i] : i \in DOMAIN s}
\* A local variable: the value v under the name the rest of the code uses.
Bind(v, Rest(_)) == Rest(v)

\* common.h:20-26
calculate_aligned_size(requested_size) ==
    IF requested_size = 0 THEN k_sector_size
    ELSE ((requested_size + k_sector_size - 1) \div k_sector_size) * k_sector_size

\* ------------------------------------------------------ keys and hash --
\* std::hash<string> is fixed per process (KV.h:11); the table below is one
\* such function on the keys of the model.  <<3>> and <<4>> collide; <<5>>
\* is the key of the runs with high hashes only.
Keys == {<< >>, <<1>>, <<2>>, <<3>>, <<4>>}
hasher(k) ==
    CASE k = << >> -> 160
      [] k = <<1>> -> 16
      [] k = <<2>> -> 200
      [] k = <<3>> -> 64
      [] k = <<4>> -> 64
      [] k = <<5>> -> 240
Values == {<< >>, <<9>>}

\* KV.h:18: the hash is computed from the key when the record is built.
KV(k, v) == [_k |-> k, _v |-> v, _hash |-> hasher(k)]

\* What a size_t read from memory the program never wrote may yield: a value
\* below every hash, one equal to a stored hash, and one above every hash.
Garbage == {0, 64, Word - 1}
\* What an IndexEntry read from such memory may yield: the two words alike,
\* or an offset that is no off_t.
GarbageEntry == UNION {{[_hash |-> g, _offset |-> o] : o \in {g, Word - 1}} : g \in Garbage}


\* ------------------------------------------------ BufferedFileOutput --
\* An output handle: buf is the filled part of the bounce buffer (its
\* length is current_buffer_pos_), total is total_bytes_written_, open is
\* fd_ # -1, file is what the kernel has been handed so far.  The kernel's
\* side: fails is the set of ::write calls (numbered from 1 in calls) that
\* return -1, failed tells that one did, sys counts the system calls issued;
\* kw lists the ::write calls issued, each with its length and the file
\* offset it starts at; ret is the value the last member call returned.
Out_new(buffer_size) ==
    [buffer_size |-> calculate_aligned_size(buffer_size), buf |-> << >>,
     total |-> 0, file |-> << >>, open |-> FALSE, direct |-> FALSE,
     fails |-> {}, calls |-> 0, failed |-> FALSE, sys |-> 0, kw |-> << >>,
     ret |-> 0]

\* buffered_file_output.h:88-106 (O_TRUNC: the file starts empty); sys_open
\* is whether ::open succeeds.
Out_open_sys(o, use_direct_io, sys_open) ==
    IF o.open THEN [o EXCEPT !.ret = -1]
    ELSE [o EXCEPT !.direct = IF use_direct_io THEN TRUE ELSE o.direct,
                   !.open = sys_open,
                   !.file = IF sys_open THEN << >> ELSE o.file,
                   !.sys = o.sys + 1,
                   !.ret = IF sys_open THEN 0 ELSE -1]
Out_open(o, use_direct_io) == Out_open_sys(o, use_direct_io, TRUE)

\* ::write(fd, data): call number calls + 1 of this handle
Out_sys_write(o, data) ==
    IF (o.calls + 1) \in o.fails
    THEN [o EXCEPT !.calls = o.calls + 1, !.sys = o.sys + 1, !.failed = TRUE,
                   !.kw = Append(o.kw, [len |-> Len(data), at |-> Len(o.file)]),
                   !.ret = -1]
    ELSE [o EXCEPT !.calls = o.calls + 1, !.sys = o.sys + 1,
                   !.kw = Append(o.kw, [len |-> Len(data), at |-> Len(o.file)]),
                   !.file = o.file \o data, !.ret = Len(data)]

\* buffered_file_output.h:40-60
Out_flush(o) ==
    IF ~o.open \/ o.buf = << >> THEN [o EXCEPT !.ret = 0]
    ELSE Bind(Out_sys_write(o, o.buf), LAMBDA w :
         IF w.ret < 0 THEN w ELSE [w EXCEPT !.buf = << >>, !.ret = 0])

\* buffered_file_output.h:123-141, the copy loop: data is what is left of the
\* bytes bytes of the call.
RECURSIVE Out_copy(_, _, _)
Out_copy(o, data, bytes) ==
    IF data = << >> THEN [o EXCEPT !.total = o.total + bytes, !.ret = bytes]
    ELSE LET space_in_buffer == o.buffer_size - Len(o.buf)
             bytes_to_copy   == Min(Len(data), space_in_buffer)
             filled == [o EXCEPT !.buf = o.buf \o SubSeq(data, 1, bytes_to_copy)]
             rest   == SubSeq(data, bytes_to_copy + 1, Len(data))
         IN  IF Len(filled.buf) = o.buffer_size
             THEN Bind(Out_flush(filled), LAMBDA fl :
                  IF fl.ret = -1
                  THEN [fl EXCEPT !.total = fl.total + (bytes - Len(rest))]
                  ELSE Out_copy(fl, rest, bytes))
             ELSE Out_copy(filled, rest, bytes)

\* buffered_file_output.h:114-142
Out_write(o, data) ==
    IF ~o.open THEN [o EXCEPT !.ret = -1]
    ELSE Out_copy(o, data, Len(data))

\* buffered_file_output.h:148-155
Out_writeString(o, s) ==
    Bind(Out_write(o, <<Len(s)>>), LAMBDA o1 :
    IF o1.ret <= 0 THEN o1
    ELSE Bind(Out_write(o1, s), LAMBDA o2 :
         IF o2.ret <= 0 THEN o2 ELSE [o2 EXCEPT !.ret = 0]))

\* close without the ftruncate of buffered_file_output.h:182-187.
Out_close_padded(o) ==
    IF ~o.open THEN [o EXCEPT !.ret = 0]
    ELSE Bind(IF o.buf = << >> THEN [o EXCEPT !.ret = 0]
              ELSE Out_sys_write(o, IF o.direct
                       THEN o.buf \o Fill(calculate_aligned_size(Len(o.buf)) - Len(o.buf), 0)
                       ELSE o.buf),
              LAMBDA w : [w EXCEPT !.open = FALSE, !.sys = w.sys + 1,
                                   !.ret = IF w.ret < 0 THEN -1 ELSE 0])
\* buffered_file_output.h:162-197; ftruncate and ::close succeed.
Out_close(o) ==
    IF ~o.open THEN [o EXCEPT !.ret = 0]
    ELSE IF o.direct
         THEN Bind(IF o.buf = << >> THEN [o EXCEPT !.ret = 0]
                   ELSE Out_sys_write(o, o.buf \o
                            Fill(calculate_aligned_size(Len(o.buf)) - Len(o.buf), 0)),
                   LAMBDA w :
              IF w.ret < 0 THEN [w EXCEPT !.open = FALSE, !.sys = w.sys + 1]
              ELSE [w EXCEPT !.file = SubSeq(w.file, 1, Min(w.total, Len(w.file)))
                                      \o Fill(w.total - Min(w.total, Len(w.file)), 0),
                             !.open = FALSE, !.sys = w.sys + 2, !.ret = 0])
         ELSE Bind(Out_flush(o), LAMBDA fl :
              [fl EXCEPT !.open = FALSE, !.sys = fl.sys + 1])

\* ------------------------------------------------------ Bucket::write --
IsSortedByHash(s) == \A i \in 1..(Len(s) - 1) : s[i]._hash <= s[i + 1]._hash

\* bucket.cpp:188-189: std::sort by hash; the order among equal hashes is
\* unspecified, so every hash-sorted arrangement of the batch is an outcome.
RECURSIVE SortFrom(_, _)
SortFrom(kvs, I) ==
    IF I = {} THEN {<< >>}
    ELSE LET m == CHOOSE h \in {kvs[i]._hash : i \in I} :
                      \A j \in I : h <= kvs[j]._hash
         IN  UNION {{<<kvs[i]>> \o t : t \in SortFrom(kvs, I \ {i})} :
                    i \in {j \in I : kvs[j]._hash = m}}
\* The comparator of bucket.cpp:189 turned round.
std_sort_descending(kvs) == {[i \in DOMAIN kvs |-> kvs[Len(kvs) + 1 - i]]}
std_sort(kvs) == SortFrom(kvs, DOMAIN kvs)

\* bucket.cpp:201-206: the records, and the offset of each
RECURSIVE WriteRecords(_, _, _, _)
WriteRecords(out, kvs, i, acc) ==
    \* acc = [out, offsets, offset]
    IF i > Len(kvs) THEN acc
    ELSE LET kv == kvs[i]
             o1 == Out_writeString(acc.out, kv._k)
             o2 == Out_writeString(o1, kv._v)
         IN  WriteRecords(out, kvs, i + 1,
                 [out |-> o2, offsets |-> Append(acc.offsets, acc.offset),
                  offset |-> Wrap(acc.offset + 2 + Len(kv._k) + Len(kv._v))])

\* The test of bucket.cpp:208 left out.
WritePadding_always(out, offset) ==
    Out_write(out, Fill(k_sector_size - (offset % k_sector_size), 0))
\* bucket.cpp:208-213
WritePadding(out, offset) ==
    IF offset % k_sector_size > 0
    THEN Out_write(out, Fill(k_sector_size - (offset % k_sector_size), 0))
    ELSE out

\* kvs[pos]._hash as the build reads it: position pos of the array (0-based),
\* or memory outside it (heap is what such a read yields).
KvsHashAt(kvs, pos, heap) == IF pos < Len(kvs) THEN kvs[pos + 1]._hash ELSE heap

\* bucket.cpp:225-232: the positions read for _post_hashes at record i
PostPositions(i, entries_num) ==
    LET pages_ahead  == (entries_num + k_entries_num - 1) \div k_entries_num
        hashes_ahead == Min(k_hashes_num, pages_ahead)
    IN  [k \in 1..hashes_ahead |-> Wrap(i + k_entries_num + (k - 1) * k_entries_num)]

\* bucket.cpp:236-244: the positions read for _pre_hashes at record i
PrePositions(i, entries_num) ==
    LET pages_preceding  == Wrap(i + 1 - k_entries_num) \div k_entries_num
        hashes_preceding == Min(k_hashes_num, pages_preceding)
    IN  [k \in 1..hashes_preceding |->
            Wrap(i - k_entries_num * 2 + 1 - (k - 1) * k_entries_num)]

\* The IndexPage struct of bucket.cpp:216 as cells: pre, post, entries.
PageCells(page) ==
    page.pre \o page.post \o
    [c \in 1..(2 * k_entries_num) |->
        IF c % 2 = 1 THEN page.entries[(c + 1) \div 2]._hash
        ELSE page.entries[c \div 2]._offset]

\* bucket.cpp:219-250: acc = [out, page, page_entry, reads]; i is 0-based.
RECURSIVE WriteIndex(_, _, _, _, _)
WriteIndex(kvs, offsets, heap, i, acc) ==
    LET entries_num == Len(kvs) IN
    IF i >= entries_num THEN acc
    ELSE LET page1 == [acc.page EXCEPT !.entries[acc.page_entry + 1] =
                          [_hash |-> kvs[i + 1]._hash, _offset |-> offsets[i + 1]]]
             page_entry == acc.page_entry + 1
         IN  IF page_entry = k_entries_num \/ i + 1 = entries_num
             THEN LET post == PostPositions(i, entries_num)
                      pre  == PrePositions(i, entries_num)
                      page2 == [page1 EXCEPT
                          !.post = [k \in 1..k_hashes_num |->
                                      IF k \in DOMAIN post
                                      THEN KvsHashAt(kvs, post[k], heap)
                                      ELSE page1.post[k]],
                          !.pre  = [k \in 1..k_hashes_num |->
                                      IF k \in DOMAIN pre
                                      THEN KvsHashAt(kvs, pre[k], heap)
                                      ELSE page1.pre[k]]]
                  IN  WriteIndex(kvs, offsets, heap, i + 1,
                          [out |-> Out_write(acc.out, PageCells(page2)),
                           page |-> page2, page_entry |-> 0,
                           reads |-> acc.reads \cup Range(post) \cup Range(pre)])
             ELSE WriteIndex(kvs, offsets, heap, i + 1,
                          [acc EXCEPT !.page = page1, !.page_entry = page_entry])

\* bucket.cpp:187-258.  kvs is the batch after the sort; stack is the content
\* of the uninitialised IndexPage of line 216, heap what a read outside the
\* record array yields, fails the kernel writes that fail.  The result is the
\* DataFileMetadata with the file's content; kvs, offsets, reads, whether a
\* kernel write failed, what close returned and what the kernel held when the
\* index loop began are kept beside it for the properties.
Bucket_write(path, kvs, stack, heap, fails) ==
    LET out0 == Out_open([Out_new(k_sector_size) EXCEPT !.fails = fails], FALSE)
        recs == WriteRecords(out0, kvs, 1,
                    [out |-> out0, offsets |-> << >>, offset |-> 0])
        out1 == WritePadding(recs.out, recs.offset)
        idx  == WriteIndex(kvs, recs.offsets, heap, 0,
                    [out |-> out1,
                     page |-> [pre |-> Fill(k_hashes_num, stack),
                               post |-> Fill(k_hashes_num, stack),
                               entries |-> Fill(k_entries_num,
                                   [_hash |-> stack, _offset |-> stack])],
                     page_entry |-> 0, reads |-> {}])
        out2 == Out_close(idx.out)
    IN  [path |-> path, content |-> out2.file, entries_count |-> Len(kvs),
         byte_size |-> Len(out2.file),
         kvs |-> kvs, offsets |-> recs.offsets, record_bytes |-> recs.offset,
         reads |-> idx.reads, write_failed |-> out2.failed,
         close_ret |-> out2.ret, partial |-> out1.file]
\* Bucket::write when every kernel write succeeds.
write(kvs, stack, heap) == Bucket_write(0, kvs, stack, heap, {})

\* --------------------------------------------------------- the kernel --
\* off_t is signed: a size_t of Word \div 2 or more is a negative offset.
IsOffT(off) == off < Word \div 2

\* ::pread(fd, buf, n, off) on a file with this content: the bytes handed
\* back (fewer than n at the end of the file, none past it or on EINVAL).
sys_pread(content, n, off) ==
    IF ~IsOffT(off) \/ off >= Len(content) THEN << >>
    ELSE SubSeq(content, off + 1, Min(off + n, Len(content)))

\* ------------------------------------------------------- PageIterator --
\* An iterator b: page is the page buffer (_page), curr is
\* _curr_entry_in_block, the other fields carry the source's names.
PagePre(page, p)   == page[p + 1]
PagePost(page, p)  == page[k_hashes_num + p + 1]
PageEntry(page, j) == [_hash   |-> page[2 * k_hashes_num + 2 * j + 1],
                       _offset |-> page[2 * k_hashes_num + 2 * j + 2]]

\* bucket.cpp:67-73: TRUE when pread did not return one full page.  A short
\* read leaves the rest of the page buffer as it was; short records that a
\* load of the current lookup came back short.
load(b, F) ==
    Bind(sys_pread(F, IndexPageSize,
                   Wrap(b._index_offset + b._page_id * IndexPageSize)),
         LAMBDA data :
             [b   |-> [b EXCEPT !.page =
                          data \o SubSeq(b.page, Len(data) + 1, IndexPageSize),
                          !.short = b.short \/ Len(data) # IndexPageSize],
              ret |-> Len(data) # IndexPageSize])

\* bucket.cpp:27-35
setPageId(b, F, page_id) ==
    LET b1 == [b EXCEPT !._page_id = page_id,
                  !._size = IF Wrap((page_id + 1) * k_entries_num) > b._entries_num
                            THEN Wrap(b._entries_num - page_id * k_entries_num)
                            ELSE k_entries_num]
    IN  load(b1, F)

\* bucket.cpp:17-25
init(b, F, page_for_entry, index_offset, entries_num) ==
    LET b1 == [b EXCEPT !._index_offset = index_offset,
                  !._entries_num = entries_num,
                  !._pages_num = (entries_num + k_entries_num - 1) \div k_entries_num,
                  !.curr = page_for_entry % k_entries_num,
                  !.short = FALSE]
    IN  setPageId(b1, F, page_for_entry \div k_entries_num)

\* bucket.cpp:40-51
dec(b, F) ==
    IF b.curr > 0 THEN [b |-> [b EXCEPT !.curr = b.curr - 1], ret |-> TRUE]
    ELSE IF b._page_id = 0 THEN [b |-> b, ret |-> FALSE]
    ELSE Bind(load([b EXCEPT !._page_id = b._page_id - 1,
                             !._size = k_entries_num,
                             !.curr = k_entries_num - 1], F),
              LAMBDA l : [b |-> l.b, ret |-> ~l.ret])

\* inc without the size of the last page (bucket.cpp:59-61 left out).
inc_full_pages(b, F) ==
    IF b.curr + 1 < b._size THEN [b |-> [b EXCEPT !.curr = b.curr + 1], ret |-> TRUE]
    ELSE IF b._page_id + 1 >= b._pages_num THEN [b |-> b, ret |-> FALSE]
    ELSE Bind(load([b EXCEPT !._page_id = b._page_id + 1, !.curr = 0], F),
              LAMBDA l : [b |-> l.b, ret |-> ~l.ret])
\* bucket.cpp:52-65
inc(b, F) ==
    IF b.curr + 1 < b._size THEN [b |-> [b EXCEPT !.curr = b.curr + 1], ret |-> TRUE]
    ELSE IF b._page_id + 1 >= b._pages_num THEN [b |-> b, ret |-> FALSE]
    ELSE LET page_id == b._page_id + 1
         IN  Bind(load([b EXCEPT !._page_id = page_id,
                     !._size = IF (page_id + 1) * k_entries_num > b._entries_num
                               THEN Wrap(b._entries_num - page_id * k_entries_num)
                               ELSE b._size,
                     !.curr = 0], F),
                  LAMBDA l : [b |-> l.b, ret |-> ~l.ret])

\* ----------------------------------------------------- getHashOffsets --
\* A lookup state st: b the iterator, result is context._result, fence the
\* fence slots read so far (<<"post" or "pre", page_id, slot>>), returned is
\* TRUE once a return statement was taken, ub is TRUE once an entry outside
\* the page buffer was read.  skips lists the rounds of the two skip loops
\* ([dir, page_id, H, p, to]: the page the round began on, the number of
\* fence slots it could scan, the slot its scan stopped at and the page it
\* moved to, -1 for a return), reads the entries read by lines 82-116
\* ([page_id, pages_num, size, entry]), landed the page on which the
\* backward skip ended and bot the entry its binary search chose.
Push(st, off) == [st EXCEPT !.result = Append(st.result, off)]

\* bucket.cpp:37-39
current(b) == PageEntry(b.page, b.curr)

\* What the iterator says of itself when entry j of its page is read.
EntryRead(b, j) == [page_id |-> b._page_id, pages_num |-> b._pages_num,
                    size |-> b._size, entry |-> j]

\* bucket.cpp:86-88
RECURSIVE DecWalk(_, _, _)
DecWalk(st, F, hash) ==
    Bind(dec(st.b, F), LAMBDA d :
        IF d.ret /\ current(d.b)._hash = hash
        THEN DecWalk(Push([st EXCEPT !.b = d.b], current(d.b)._offset), F, hash)
        ELSE [st EXCEPT !.b = d.b])

\* bucket.cpp:90-92
RECURSIVE IncWalk(_, _, _)
IncWalk(st, F, hash) ==
    Bind(inc(st.b, F), LAMBDA d :
        IF d.ret /\ current(d.b)._hash = hash
        THEN IncWalk(Push([st EXCEPT !.b = d.b], current(d.b)._offset), F, hash)
        ELSE [st EXCEPT !.b = d.b])

\* bucket.cpp:98-101: the slot at which the scan of _post_hashes stops
RECURSIVE ScanPost(_, _, _, _)
ScanPost(page, hash, p, n) ==
    IF p < n /\ PagePost(page, p) < hash THEN ScanPost(page, hash, p + 1, n) ELSE p

\* bucket.cpp:121-124: the slot at which the scan of _pre_hashes stops
RECURSIVE ScanPre(_, _, _, _)
ScanPre(page, hash, p, n) ==
    IF p < n /\ PagePre(page, p) > hash THEN ScanPre(page, hash, p + 1, n) ELSE p

\* The slots a scan that stopped at p has read.
SlotsRead(kind, page_id, p, n) ==
    {<<kind, page_id, i>> : i \in 0..Min(p, n - 1)}

\* bucket.cpp:94-108
RECURSIVE ForwardSkip(_, _, _)
ForwardSkip(st, F, hash) ==
    LET b == st.b
        following_hashes_num == Min(b._pages_num - b._page_id, k_hashes_num)
    IN  IF b._page_id + 1 < b._pages_num
           /\ PageEntry(b.page, b._size - 1)._hash < hash
        THEN Bind(ScanPost(b.page, hash, 0, following_hashes_num), LAMBDA p :
             Bind([st EXCEPT !.fence = st.fence \cup
                      SlotsRead("post", b._page_id, p, following_hashes_num),
                      !.reads = st.reads \cup {EntryRead(b, b._size - 1)},
                      !.skips = Append(st.skips,
                          [dir |-> "post", page_id |-> b._page_id,
                           H |-> following_hashes_num, p |-> p,
                           to |-> IF p = b._page_id THEN -1
                                  ELSE Wrap(b._page_id + p + 1)])],
                  LAMBDA st1 :
             IF p = b._page_id THEN [st1 EXCEPT !.returned = TRUE]
             ELSE Bind(setPageId(b, F, Wrap(b._page_id + p + 1)), LAMBDA l :
                  ForwardSkip([st1 EXCEPT !.b = [l.b EXCEPT !.curr = 0]], F, hash))))
        ELSE IF b._page_id + 1 < b._pages_num
        THEN [st EXCEPT !.reads = st.reads \cup {EntryRead(b, b._size - 1)}]
        ELSE st

\* bucket.cpp:109-116.  An entry past the page buffer is memory the lookup
\* does not own: rg is the entry such a read yields, and the sweep
\* is followed no further.
RECURSIVE Sweep(_, _, _, _)
Sweep(st, F, hash, rg) ==
    IF st.b.curr >= k_entries_num
    THEN [(IF rg._hash = hash THEN Push(st, rg._offset) ELSE st) EXCEPT !.ub = TRUE,
             !.reads = st.reads \cup {EntryRead(st.b, st.b.curr)}]
    ELSE LET e == current(st.b)
         IN  Bind(IF e._hash = hash
                  THEN Push([st EXCEPT !.reads = st.reads \cup
                                          {EntryRead(st.b, st.b.curr)}], e._offset)
                  ELSE [st EXCEPT !.reads = st.reads \cup
                                     {EntryRead(st.b, st.b.curr)}], LAMBDA st1 :
             IF e._hash > hash THEN [st1 EXCEPT !.returned = TRUE]
             ELSE Bind(inc(st1.b, F), LAMBDA d :
                  IF d.ret THEN Sweep([st1 EXCEPT !.b = d.b], F, hash, rg)
                  ELSE [st1 EXCEPT !.b = d.b]))

\* bucket.cpp:118-130
RECURSIVE BackwardSkip(_, _, _)
BackwardSkip(st, F, hash) ==
    LET b == st.b
        preceding_hashes_num == Min(b._page_id, k_hashes_num)
    IN  IF b._page_id > 0 /\ PageEntry(b.page, 0)._hash > hash
        THEN Bind(ScanPre(b.page, hash, 0, preceding_hashes_num), LAMBDA p :
             Bind([st EXCEPT !.fence = st.fence \cup
                      SlotsRead("pre", b._page_id, p, preceding_hashes_num),
                      !.skips = Append(st.skips,
                          [dir |-> "pre", page_id |-> b._page_id,
                           H |-> preceding_hashes_num, p |-> p,
                           to |-> IF p = b._page_id THEN -1
                                  ELSE b._page_id - (p + 1)])],
                  LAMBDA st1 :
             IF p = b._page_id THEN [st1 EXCEPT !.returned = TRUE]
             ELSE Bind(setPageId(b, F, b._page_id - (p + 1)), LAMBDA l :
                  BackwardSkip([st1 EXCEPT !.b = l.b], F, hash))))
        ELSE [st EXCEPT !.landed = b._page_id]

\* bucket.cpp:133-141
RECURSIVE BinarySearch(_, _, _, _)
BinarySearch(page, hash, bot, top) ==
    IF top > 1
    THEN LET mid == top \div 2
         IN  BinarySearch(page, hash,
                 IF hash >= PageEntry(page, bot + mid)._hash THEN bot + mid ELSE bot,
                 top - mid)
    ELSE bot

\* bucket.cpp:144-145
RECURSIVE LastEqual(_, _, _, _)
LastEqual(page, size, hash, bot) ==
    IF bot + 1 < size /\ PageEntry(page, bot + 1)._hash = hash
    THEN LastEqual(page, size, hash, bot + 1) ELSE bot

\* bucket.cpp:146-158
RECURSIVE BackCollect(_, _, _, _)
BackCollect(st, F, hash, bot) ==
    IF PageEntry(st.b.page, bot)._hash = hash
    THEN Bind(Push(st, PageEntry(st.b.page, bot)._offset), LAMBDA st1 :
         IF bot > 0 THEN BackCollect(st1, F, hash, bot - 1)
         ELSE IF st.b._page_id = 0 THEN [st1 EXCEPT !.returned = TRUE]
         ELSE Bind(load([st.b EXCEPT !._page_id = st.b._page_id - 1,
                                     !._size = k_entries_num], F), LAMBDA l :
              BackCollect([st1 EXCEPT !.b = l.b], F, hash, k_entries_num - 1)))
    ELSE st

\* bucket.cpp:78: the estimated position of the hash among size entries
Estimate(size, hash) == ((hash \div HalfWord) * size) \div HalfWord

\* bucket.cpp:75-160.  b is context._index_iterator as the previous lookup
\* left it, F the content of the file behind context._in.
getHashOffsets(b, F, size, hash, offset, rg) ==
    LET curr_entry == Estimate(size, hash) IN
    Bind(init(b, F, curr_entry, offset, size).b, LAMBDA b0 :
    LET curr_hash == current(b0)._hash
        st0 == [b |-> b0, result |-> << >>, fence |-> {}, returned |-> FALSE,
                ub |-> FALSE, skips |-> << >>, reads |-> {EntryRead(b0, b0.curr)},
                landed |-> -1, bot |-> -1]
    IN  IF curr_hash = hash
        THEN Bind(DecWalk(Push(st0, current(b0)._offset), F, hash), LAMBDA st1 :
             IncWalk([st1 EXCEPT !.b = init(st1.b, F, curr_entry, offset, size).b],
                     F, hash))
        ELSE IF curr_hash < hash
        THEN Bind(ForwardSkip(st0, F, hash), LAMBDA st1 :
             IF st1.returned THEN st1 ELSE Sweep(st1, F, hash, rg))
        ELSE Bind(BackwardSkip(st0, F, hash), LAMBDA st1 :
             IF st1.returned THEN st1
             ELSE Bind(BinarySearch(st1.b.page, hash, 0, st1.b._size), LAMBDA bot0 :
                  IF hash # PageEntry(st1.b.page, bot0)._hash
                  THEN [st1 EXCEPT !.returned = TRUE, !.bot = bot0]
                  ELSE BackCollect([st1 EXCEPT !.bot = bot0], F, hash,
                           LastEqual(st1.b.page, st1.b._size, hash, bot0)))))

\* -------------------------------------------------- BufferedFileInput --
\* An input handle: buf is the valid part of the bounce buffer (its length is
\* valid_bytes_in_buffer_), cur is current_data_ptr_ - buffer_.  The file
\* offset of the descriptor lives in the kernel: the operators take it as
\* fpos and hand the new one back.
In_new(buffer_size) ==
    [fd |-> 0, owner |-> FALSE, direct |-> FALSE,
     buffer_size |-> calculate_aligned_size(buffer_size), buf |-> << >>, cur |-> 0]

\* buffered_file_input.h:63-67
passFd(in, fd, use_direct_io) ==
    [in EXCEPT !.fd = fd, !.owner = FALSE, !.direct = use_direct_io]

\* buffered_file_input.h:35-46 (::read advances the descriptor's offset)
fill_buffer(in, F, fpos) ==
    Bind(sys_pread(F, in.buffer_size, fpos), LAMBDA data :
        [in |-> [in EXCEPT !.buf = data, !.cur = 0], fpos |-> fpos + Len(data),
         ret |-> Len(data)])

\* buffered_file_input.h:119-143; r = [in, fpos, data, ret], data the bytes
\* copied to the user buffer so far.
RECURSIVE In_read_loop(_, _, _)
In_read_loop(r, F, bytes_to_read) ==
    IF Len(r.data) >= bytes_to_read THEN [r EXCEPT !.ret = Len(r.data)]
    ELSE LET left == Len(r.in.buf) - r.in.cur IN
         Bind(IF left = 0 THEN fill_buffer(r.in, F, r.fpos)
              ELSE [in |-> r.in, fpos |-> r.fpos, ret |-> left], LAMBDA f :
             IF left = 0 /\ f.ret <= 0
             THEN [r EXCEPT !.in = f.in, !.fpos = f.fpos,
                            !.ret = IF Len(r.data) > 0 THEN Len(r.data) ELSE f.ret]
             ELSE LET bytes_left_in_buffer == Len(f.in.buf) - f.in.cur
                      bytes_to_copy ==
                          Min(bytes_to_read - Len(r.data), bytes_left_in_buffer)
                  IN  In_read_loop(
                          [in   |-> [f.in EXCEPT !.cur = f.in.cur + bytes_to_copy],
                           fpos |-> f.fpos,
                           data |-> r.data \o SubSeq(f.in.buf, f.in.cur + 1,
                                                     f.in.cur + bytes_to_copy),
                           ret  |-> 0],
                          F, bytes_to_read))

In_read(in, F, fpos, bytes_to_read) ==
    IF in.fd = 0 THEN [in |-> in, fpos |-> fpos, data |-> << >>, ret |-> -1]
    ELSE In_read_loop([in |-> in, fpos |-> fpos, data |-> << >>, ret |-> 0],
                      F, bytes_to_read)

\* std::string::resize: the old content is kept, new bytes are zero.
Resize(s, n) == [i \in 1..n |-> IF i <= Len(s) THEN s[i] ELSE 0]

\* buffered_file_input.h:149-157; s is the string as the caller passed it.
readString(in, F, fpos, s) ==
    Bind(In_read(in, F, fpos, 1), LAMBDA r1 :
    IF r1.ret <= 0 THEN [in |-> r1.in, fpos |-> r1.fpos, s |-> s, ret |-> r1.ret]
    ELSE LET size == r1.data[1]
             s1   == Resize(s, size)
         IN  Bind(In_read(r1.in, F, r1.fpos, size), LAMBDA r2 :
             [in |-> r2.in, fpos |-> r2.fpos,
              s  |-> r2.data \o SubSeq(s1, Len(r2.data) + 1, size),
              ret |-> IF r2.ret <= 0 THEN r2.ret ELSE 1 + size]))

\* buffered_file_input.h:237-251, SEEK_SET without direct I/O (the only mode
\* Bucket::read attaches a descriptor in, bucket.cpp:167)
seek(in, fpos, offset) ==
    IF in.fd = 0 \/ ~IsOffT(offset) THEN [in |-> in, fpos |-> fpos, ret |-> -1]
    ELSE [in |-> [in EXCEPT !.buf = << >>, !.cur = 0], fpos |-> offset,
          ret |-> offset]

\* close without the ownership test of buffered_file_input.h:103.
In_closes_any(in) == in.fd # 0
\* buffered_file_input.h:102-111: TRUE when ::close is called
In_closes(in) == in.fd # 0 /\ in.owner
In_close(in) == IF In_closes(in) THEN [in EXCEPT !.fd = 0] ELSE in

\* buffered_file_input.h:75-96; sys_open is the descriptor ::open hands
\* back (0 for its failure), called tells whether ::open was reached.
In_open(in, use_direct_io, sys_open) ==
    IF in.fd # 0 THEN [in |-> in, ret |-> -1, called |-> FALSE]
    ELSE [in |-> [in EXCEPT !.direct = use_direct_io, !.fd = sys_open,
                            !.owner = IF sys_open # 0 THEN TRUE ELSE in.owner],
          ret |-> IF sys_open # 0 THEN 0 ELSE -1, called |-> TRUE]

\* ::pread with a signed offset: EINVAL below zero.
sys_pread_at(content, n, off) ==
    IF off < 0 THEN [data |-> << >>, ret |-> -1]
    ELSE [data |-> sys_pread(content, n, off),
          ret  |-> Len(sys_pread(content, n, off))]

\* (x / k_sector_size) * k_sector_size for an off_t x: k_sector_size is a
\* size_t (common.h:8), so x is converted to size_t, and the result, taken
\* back to off_t, is the multiple of k_sector_size at or below x for a
\* negative x as well (the word size is a multiple of k_sector_size).
AlignDown(x) == (x \div k_sector_size) * k_sector_size
\* x % k_sector_size == 0, computed in size_t likewise
IsAligned(x) == x % k_sector_size = 0

\* buffered_file_input.h:188-218, the loop of aligned reads; r = [data, ret,
\* broke], data the bytes copied to the user so far.
RECURSIVE pread_loop(_, _, _, _, _)
pread_loop(r, F, buffer_size, bytes_to_read, current_file_offset) ==
    IF Len(r.data) >= bytes_to_read THEN [r EXCEPT !.ret = Len(r.data)]
    ELSE Bind(sys_pread_at(F, buffer_size, AlignDown(current_file_offset)),
         LAMBDA sys :
         Bind(current_file_offset - AlignDown(current_file_offset),
         LAMBDA data_start_in_buffer_offset :
         IF sys.ret < 0 THEN [r EXCEPT !.ret = -1, !.broke = TRUE]
         ELSE IF sys.ret = 0 \/ sys.ret <= data_start_in_buffer_offset
         THEN [r EXCEPT !.ret = Len(r.data)]
         ELSE Bind(Min(bytes_to_read - Len(r.data),
                       sys.ret - data_start_in_buffer_offset),
              LAMBDA bytes_to_copy :
              pread_loop(
                  [r EXCEPT !.data = r.data \o
                      SubSeq(sys.data, data_start_in_buffer_offset + 1,
                             data_start_in_buffer_offset + bytes_to_copy)],
                  F, buffer_size, bytes_to_read,
                  current_file_offset + bytes_to_copy))))

\* buffered_file_input.h:169-226; user_aligned tells whether user_buffer is
\* a multiple of k_sector_size.
In_pread(in, F, user_aligned, bytes_to_read, offset) ==
    IF in.fd = 0 THEN [in |-> in, data |-> << >>, ret |-> -1, fallback |-> FALSE]
    ELSE IF ~in.direct
            \/ (user_aligned /\ IsAligned(offset)
                /\ bytes_to_read % k_sector_size = 0 /\ bytes_to_read > 0)
    THEN [in |-> in, data |-> sys_pread_at(F, bytes_to_read, offset).data,
          ret |-> sys_pread_at(F, bytes_to_read, offset).ret, fallback |-> FALSE]
    ELSE Bind(pread_loop([data |-> << >>, ret |-> 0, broke |-> FALSE], F,
                         in.buffer_size, bytes_to_read, offset),
         LAMBDA r :
         [in |-> IF r.broke THEN in ELSE [in EXCEPT !.buf = << >>, !.cur = 0],
          data |-> r.data, ret |-> r.ret, fallback |-> TRUE])

\* seek_direct without the advance of current_data_ptr_ of
\* buffered_file_input.h:289-291.
seek_direct_at_start(in, F, fpos, offset) ==
    IF offset < 0 THEN [in |-> in, fpos |-> fpos, ret |-> -1]
    ELSE Bind(fill_buffer(in, F, AlignDown(offset)), LAMBDA f :
         IF f.ret = 0 THEN [in |-> f.in, fpos |-> f.fpos, ret |-> offset]
         ELSE IF offset - AlignDown(offset) >= Len(f.in.buf)
         THEN [in |-> [f.in EXCEPT !.buf = << >>, !.cur = 0], fpos |-> f.fpos,
               ret |-> offset]
         ELSE [in |-> f.in, fpos |-> f.fpos, ret |-> offset])
\* buffered_file_input.h:253-294, SEEK_SET with direct I/O
seek_direct(in, F, fpos, offset) ==
    IF offset < 0 THEN [in |-> in, fpos |-> fpos, ret |-> -1]
    ELSE Bind(fill_buffer(in, F, AlignDown(offset)), LAMBDA f :
         IF f.ret = 0 THEN [in |-> f.in, fpos |-> f.fpos, ret |-> offset]
         ELSE IF offset - AlignDown(offset) >= Len(f.in.buf)
         THEN [in |-> [f.in EXCEPT !.buf = << >>, !.cur = 0], fpos |-> f.fpos,
               ret |-> offset]
         ELSE [in |-> [f.in EXCEPT !.cur = offset - AlignDown(offset)],
               fpos |-> f.fpos, ret |-> offset])

\* buffered_file_input.h:237-295 with whence = SEEK_SET and a signed offset
In_seek(in, F, fpos, offset) ==
    IF in.fd = 0 \/ offset < 0 THEN [in |-> in, fpos |-> fpos, ret |-> -1]
    ELSE IF in.direct THEN seek_direct(in, F, fpos, offset)
    ELSE seek(in, fpos, offset)

\* ------------------------------------------------------- Bucket::read --
\* bucket.cpp:173-181: the candidate loop of one file.  c = [in, fpos, kv,
\* hit, cands]; hit is << >> or the one record emitted.  After
\* emplace_back(std::move(kv)) the strings of kv are empty.  cands tells of
\* each candidate its offset, what seek returned, the bytes the handle held
\* buffered and the descriptor's offset when readString started, and the key
\* readString left in kv._k.
RECURSIVE Candidates(_, _, _, _, _)
Candidates(c, F, offsets, i, k) ==
    IF i > Len(offsets) THEN c
    ELSE Bind(seek(c.in, c.fpos, offsets[i]), LAMBDA sk :
         Bind(readString(sk.in, F, sk.fpos, c.kv._k), LAMBDA rk :
         Bind(Append(c.cands,
                     [offset |-> offsets[i], seek |-> sk.ret,
                      buffered |-> SubSeq(sk.in.buf, sk.in.cur + 1, Len(sk.in.buf)),
                      at |-> sk.fpos, k |-> rk.s, ret |-> rk.ret]), LAMBDA cands :
         IF rk.s = k
         THEN Bind(readString(rk.in, F, rk.fpos, c.kv._v), LAMBDA rv :
              [in |-> rv.in, fpos |-> rv.fpos,
               kv |-> [_k |-> << >>, _v |-> << >>],
               hit |-> <<[_k |-> rk.s, _v |-> rv.s]>>, cands |-> cands])
         ELSE Candidates([c EXCEPT !.in = rk.in, !.fpos = rk.fpos,
                                   !.kv._k = rk.s, !.cands = cands],
                         F, offsets, i + 1, k))))

\* bucket.cpp:166-183: the body of the loop over _files for file f.
\* r = [ctx, fpos, kv, result, from, logs]: from[i] is the file result[i]
\* came from and logs[f] what the lookup in file f did.
ReadFile(r, fs, f, k, hash, rg) ==
    LET file_meta  == fs[f]
        in1        == passFd(r.ctx._in, f, FALSE)
        size       == file_meta.entries_count
        file_size  == file_meta.byte_size
        index_size == ((size + k_entries_num - 1) \div k_entries_num) * IndexPageSize
    IN  Bind(getHashOffsets(r.ctx._index_iterator, file_meta.content, size, hash,
                            Wrap(file_size - index_size), rg), LAMBDA g :
        Bind(Candidates([in |-> in1, fpos |-> r.fpos[f], kv |-> r.kv, hit |-> << >>,
                         cands |-> << >>],
                        file_meta.content, g.result, 1, k), LAMBDA c :
        [ctx    |-> [_in |-> In_close(c.in), _index_iterator |-> g.b,
                     _result |-> g.result],
         fpos   |-> [r.fpos EXCEPT ![f] = c.fpos],
         kv     |-> c.kv,
         result |-> r.result \o c.hit,
         from   |-> r.from \o [i \in 1..Len(c.hit) |-> f],
         logs   |-> Append(r.logs,
                       [offsets |-> g.result, fence |-> g.fence, ub |-> g.ub,
                        short |-> g.b.short, skips |-> g.skips,
                        reads |-> g.reads, landed |-> g.landed, bot |-> g.bot,
                        cands |-> c.cands,
                        index_offset |-> Wrap(file_size - index_size),
                        pages_num |-> g.b._pages_num])]))

RECURSIVE ReadFiles(_, _, _, _, _, _)
ReadFiles(r, fs, f, k, hash, rg) ==
    IF f > Len(fs) THEN r
    ELSE ReadFiles(ReadFile(r, fs, f, k, hash, rg), fs, f + 1, k, hash, rg)

\* bucket.cpp:162-185
Bucket_read(fs, context, fp, k, rg) ==
    ReadFiles([ctx |-> context, fpos |-> fp, kv |-> [_k |-> << >>, _v |-> << >>],
               result |-> << >>, from |-> << >>, logs |-> << >>],
              fs, 1, k, hasher(k), rg)

\* The number of index pages of n entries.
PagesOf(n) == (n + k_entries_num - 1) \div k_entries_num

\* ---------------------------------------------------------- the bucket --
VARIABLES
    files,     \* Bucket::_files: the DataFileMetadata of each insert, in order
    fpos,      \* the kernel's file offset of each DataFile's descriptor
    ctx,       \* the caller's ReadContext
    last,      \* the last call and what it returned
    junk,      \* what memory the program never wrote holds in this run
    disk,      \* the directory of the bucket: the content of n.data at disk[n + 1]
    thr,       \* the Bucket::read calls in progress, one per thread
    io         \* a file handle of util/io used on its own, and its file

vars == <<files, fpos, ctx, last, junk, disk, thr, io>>

Records == {KV(k, v) : k \in Keys, v \in Values}

\* The records of the multi-file runs: the empty key, and the colliding keys
\* of which one comes with two values.
SmallKeys == {<< >>, <<3>>, <<4>>}
SmallRecords == {KV(<< >>, <<9>>), KV(<<3>>, << >>), KV(<<3>>, <<9>>), KV(<<4>>, <<9>>)}

\* One value per key; the key <<1>> carries the empty value.
OneValue == {KV(k, IF k = <<1>> THEN << >> ELSE <<9>>) : k \in Keys}

\* The batches of at most n records of R, one sequence per multiset (the
\* order in which a batch is handed over is erased by the sort): the
\* sequences that do not descend in Rank, which tells the records apart.
Rank(r) == 4 * r._hash + 2 * (IF r._k = <<4>> THEN 1 ELSE 0) + Len(r._v)
RECURSIVE BatchesOf(_, _)
BatchesOf(R, n) ==
    IF n = 0 THEN {<< >>}
    ELSE LET shorter == BatchesOf(R, n - 1)
         IN  shorter \cup
             {Append(s, r) : s \in {t \in shorter : Len(t) = n - 1},
                             r \in R}
FileBatches  == {s \in BatchesOf(OneValue, MaxBatch) :
                    \A i \in 1..(Len(s) - 1) : Rank(s[i]) <= Rank(s[i + 1])}
SmallBatches == {s \in BatchesOf(SmallRecords, k_entries_num) :
                    \A i \in 1..(Len(s) - 1) : Rank(s[i]) <= Rank(s[i + 1])}

\* No handle is in use on its own.
NoIo == [kind |-> "none"]

NoCall == [op |-> "none", key |-> << >>, result |-> << >>, from |-> << >>,
           logs |-> << >>]

\* A fresh ReadContext (bucket.h:91-95): the page buffer _page_mem is not
\* initialised and holds mem.
ReadContext(mem) ==
    [_in |-> In_new(k_sector_size),
     _index_iterator |->
         [page |-> Fill(IndexPageSize, mem), curr |-> 0, _size |-> 0,
          _index_offset |-> 0, _entries_num |-> 0, _page_id |-> 0,
          _pages_num |-> 0, short |-> FALSE],
     _result |-> << >>]

Init ==
    /\ files = << >>
    /\ fpos = << >>
    /\ junk \in Garbage
    /\ ctx = ReadContext(junk)
    /\ last = NoCall
    /\ disk = [n \in 1..MaxFiles |-> << >>]
    /\ thr = << >>
    /\ io = NoIo

\* bucket.cpp:9-12 with Bucket::write: the n-th insert writes n.data and
\* appends its metadata; the DataFileMetadata opens its own descriptor
\* (data_file_metadata.h:18-25), whose offset starts at 0.
\* A read of the record array outside its bounds (bucket.cpp:230, 242) either
\* yields junk or ends the process before the metadata is appended; when
\* close returns -1 the process aborts (bucket.cpp:251-255).  fails is the
\* set of kernel writes of this insert that fail.
\* bucket.cpp:10: the file of the insert that finds n files registered.
data_path_first(n) == 0
data_path(n) == n
insertWith(kvs, fails) ==
    /\ last.op # "crash"
    /\ \E sorted \in std_sort(kvs) :
         \E file \in {Bucket_write(data_path(Len(files)), sorted, junk, junk, fails)} :
         \/ /\ file.close_ret # -1
            /\ files' = Append(files, file)
            /\ fpos' = Append(fpos, 0)
            /\ disk' = [disk EXCEPT ![file.path + 1] = file.content]
            /\ last' = [NoCall EXCEPT !.op = "insert"]
            /\ UNCHANGED <<ctx, junk, thr, io>>
         \/ /\ file.close_ret = -1
            /\ disk' = [disk EXCEPT ![file.path + 1] = file.content]
            /\ last' = [NoCall EXCEPT !.op = "crash"]
            /\ UNCHANGED <<files, fpos, ctx, junk, thr, io>>
         \/ /\ \E pos \in file.reads : pos >= Len(sorted)
            /\ disk' = [disk EXCEPT ![file.path + 1] = file.partial]
            /\ last' = [NoCall EXCEPT !.op = "crash"]
            /\ UNCHANGED <<files, fpos, ctx, junk, thr, io>>
insert(kvs) == insertWith(kvs, {})

\* bucket.cpp:162-185; rg is what the memory behind the page buffer holds
\* at the time of the call.  Each file is read through its descriptor, that
\* is, as the directory holds it now.
read(k) ==
    /\ last.op # "crash"
    /\ \E rg \in GarbageEntry :
       \E r \in {Bucket_read([f \in DOMAIN files |->
                                 [files[f] EXCEPT !.content = disk[files[f].path + 1]]],
                             ctx, fpos, k, rg)} :
        /\ ctx' = r.ctx
        /\ fpos' = r.fpos
        /\ last' = [op |-> "read", key |-> k, result |-> r.result,
                    from |-> r.from, logs |-> r.logs]
        /\ UNCHANGED <<files, junk, disk, thr, io>>

\* A bucket that receives one batch of up to MaxBatch records.
InsertOne == files = << >> /\ \E kvs \in FileBatches : insert(kvs)
Read == \E k \in Keys : read(k)

\* A bucket that receives up to MaxFiles batches of one index page each.
InsertSmall == Len(files) < MaxFiles /\ \E kvs \in SmallBatches : insert(kvs)
ReadSmall == \E k \in SmallKeys : read(k)

NextFile == InsertOne \/ Read
SpecFile == Init /\ [][NextFile]_vars

Next == InsertSmall \/ ReadSmall
Spec == Init /\ [][Next]_vars

\* A bucket that receives one batch of records whose hashes lie in the top
\* quarter of the hash range, so that the estimate of bucket.cpp:78 lands on
\* the last entries.
HighKeys == {<<2>>, <<5>>}
HighBatches == {s \in BatchesOf({KV(k, <<9>>) : k \in HighKeys}, MaxBatch) :
                   \A i \in 1..(Len(s) - 1) : Rank(s[i]) <= Rank(s[i + 1])}
InsertHigh == files = << >> /\ \E kvs \in HighBatches : insert(kvs)
ReadHigh == \E k \in HighKeys : read(k)
NextHigh == InsertHigh \/ ReadHigh
SpecHigh == Init /\ [][NextHigh]_vars

\* A bucket whose inserts may each meet one failing kernel write.
FailBatches == {s \in SmallBatches :
                   \A i \in DOMAIN s :
                       s[i]._v = <<9>> /\ s[i]._k = IF i = 1 THEN << >> ELSE <<3>>}
InsertFailing ==
    /\ Len(files) < MaxFiles
    /\ \E kvs \in FailBatches, n \in 0..MaxWriteCalls :
           insertWith(kvs, IF n = 0 THEN {} ELSE {n})
NextFail == InsertFailing \/ ReadSmall
SpecFail == Init /\ [][NextFail]_vars


\* ------------------------------------------------- concurrent readers --
\* Bucket::read (bucket.cpp:162-185) cut at the system calls that touch the
\* descriptor's file offset.  A thread T: k the key, ctx its own
\* ReadContext, kv and result the locals of the call, f the file of the loop
\* of line 166, i the candidate of the loop of line 173, pc the next step.
ThreadStart(k, mem) ==
    [k |-> k, ctx |-> ReadContext(mem), kv |-> [_k |-> << >>, _v |-> << >>],
     result |-> << >>, f |-> 1, i |-> 1, pc |-> "file"]

\* bucket.cpp:166-172: passFd and getHashOffsets (pread only)
StepFile(T, fs, fp, rg) ==
    IF T.f > Len(fs) THEN [T |-> [T EXCEPT !.pc = "done"], fp |-> fp]
    ELSE LET file_meta  == fs[T.f]
             size       == file_meta.entries_count
             index_size == ((size + k_entries_num - 1) \div k_entries_num)
                           * IndexPageSize
         IN  Bind(getHashOffsets(T.ctx._index_iterator, file_meta.content, size,
                                 hasher(T.k),
                                 Wrap(file_meta.byte_size - index_size), rg),
                  LAMBDA g :
             [T |-> [T EXCEPT !.ctx = [_in |-> passFd(T.ctx._in, T.f, FALSE),
                                       _index_iterator |-> g.b,
                                       _result |-> g.result],
                              !.i = 1, !.pc = "seek"],
              fp |-> fp])

\* bucket.cpp:173-174: the loop test and seek (lseek)
StepSeek(T, fs, fp) ==
    IF T.i > Len(T.ctx._result) THEN [T |-> [T EXCEPT !.pc = "close"], fp |-> fp]
    ELSE Bind(seek(T.ctx._in, fp[T.f], T.ctx._result[T.i]), LAMBDA sk :
         [T |-> [T EXCEPT !.ctx._in = sk.in, !.pc = "key"],
          fp |-> [fp EXCEPT ![T.f] = sk.fpos]])

\* bucket.cpp:175-176: readString(kv._k) (::read) and the comparison
StepKey(T, fs, fp) ==
    Bind(readString(T.ctx._in, fs[T.f].content, fp[T.f], T.kv._k), LAMBDA rk :
    [T |-> [T EXCEPT !.ctx._in = rk.in, !.kv._k = rk.s,
                     !.i = IF rk.s = T.k THEN T.i ELSE T.i + 1,
                     !.pc = IF rk.s = T.k THEN "value" ELSE "seek"],
     fp |-> [fp EXCEPT ![T.f] = rk.fpos]])

\* bucket.cpp:177-179: readString(kv._v), emplace_back(std::move(kv)), break
StepValue(T, fs, fp) ==
    Bind(readString(T.ctx._in, fs[T.f].content, fp[T.f], T.kv._v), LAMBDA rv :
    [T |-> [T EXCEPT !.ctx._in = rv.in,
                     !.result = Append(T.result, [_k |-> T.kv._k, _v |-> rv.s]),
                     !.kv = [_k |-> << >>, _v |-> << >>],
                     !.pc = "close"],
     fp |-> [fp EXCEPT ![T.f] = rv.fpos]])

\* bucket.cpp:182: close, and the next file
StepClose(T, fs, fp) ==
    [T |-> [T EXCEPT !.ctx._in = In_close(T.ctx._in), !.f = T.f + 1,
                     !.pc = "file"],
     fp |-> fp]

ThreadStep(T, fs, fp, rg) ==
    CASE T.pc = "file"  -> StepFile(T, fs, fp, rg)
      [] T.pc = "seek"  -> StepSeek(T, fs, fp)
      [] T.pc = "key"   -> StepKey(T, fs, fp)
      [] T.pc = "value" -> StepValue(T, fs, fp)
      [] T.pc = "close" -> StepClose(T, fs, fp)

\* The files as their descriptors show them.
OnDisk == [f \in DOMAIN files |-> [files[f] EXCEPT !.content = disk[files[f].path + 1]]]

\* Two threads call Bucket::read, each with a ReadContext of its own.
StartReads ==
    /\ files # << >> /\ thr = << >> /\ last.op # "crash"
    /\ \E k1, k2 \in SmallKeys : thr' = <<ThreadStart(k1, junk), ThreadStart(k2, junk)>>
    /\ UNCHANGED <<files, fpos, ctx, last, junk, disk, io>>

\* One thread runs to its next system call on a shared descriptor.
Step ==
    \E t \in DOMAIN thr :
        /\ thr[t].pc # "done"
        /\ \E n \in {ThreadStep(thr[t], OnDisk, fpos,
                                  [_hash |-> junk, _offset |-> junk])} :
              /\ thr' = [thr EXCEPT ![t] = n.T]
              /\ fpos' = n.fp
        /\ UNCHANGED <<files, ctx, last, junk, disk, io>>

\* The bucket of the concurrent runs holds one file.
InsertConc == files = << >> /\ InsertSmall
NextConc == InsertConc \/ StartReads \/ Step
SpecConc == Init /\ [][NextConc]_vars

\* ------------------------------------------- a BufferedFileOutput alone --
\* io = [kind, h, op, n, opens, ok, written]: h the handle, op the last
\* member call and n their number, opens the successful opens, ok that no
\* write since the last open returned -1, written the bytes of the writes
\* since the last open.  h.kw holds the ::write calls of the last member
\* call only.
Chunks == {<< >>, <<1, 2, 3>>, <<4, 5, 6, 7, 8, 9, 10, 11>>,
           <<12, 13, 14, 15, 16, 17, 18, 19, 20, 21, 22>>}

\* buffered_file_output.h:68-70; the kernel fails the ::write calls in fails.
OutNew ==
    /\ io.kind = "none" /\ files = << >> /\ last.op = "none"
    /\ \E fails \in {{}, {1}, {2}} :
          io' = [kind |-> "out", h |-> [Out_new(k_sector_size) EXCEPT !.fails = fails],
                 op |-> "new", n |-> 0, opens |-> 0, ok |-> TRUE, written |-> << >>]
    /\ UNCHANGED <<files, fpos, ctx, last, junk, disk, thr>>

OutOpen ==
    /\ io.kind = "out" /\ io.n < MaxOps
    /\ \E use_direct_io \in BOOLEAN, sys_open \in BOOLEAN :
       \E h \in {Out_open_sys([io.h EXCEPT !.kw = << >>], use_direct_io, sys_open)} :
          io' = [io EXCEPT !.h = h, !.op = "open", !.n = io.n + 1,
                           !.opens = IF h.ret = 0 THEN io.opens + 1 ELSE io.opens,
                           !.ok = IF h.ret = 0 THEN TRUE ELSE io.ok,
                           !.written = IF h.ret = 0 THEN << >> ELSE io.written]
    /\ UNCHANGED <<files, fpos, ctx, last, junk, disk, thr>>

OutWrite ==
    /\ io.kind = "out" /\ io.n < MaxOps
    /\ \E data \in Chunks : \E h \in {Out_write([io.h EXCEPT !.kw = << >>], data)} :
          io' = [io EXCEPT !.h = h, !.op = "write", !.n = io.n + 1,
                           !.ok = io.ok /\ h.ret # -1,
                           !.written = IF h.ret = -1 THEN io.written
                                       ELSE io.written \o data]
    /\ UNCHANGED <<files, fpos, ctx, last, junk, disk, thr>>

OutClose ==
    /\ io.kind = "out" /\ io.n < MaxOps
    /\ io' = [io EXCEPT !.h = Out_close([io.h EXCEPT !.kw = << >>]), !.op = "close", !.n = io.n + 1]
    /\ UNCHANGED <<files, fpos, ctx, last, junk, disk, thr>>

NextOut == OutNew \/ OutOpen \/ OutWrite \/ OutClose
SpecOut == Init /\ [][NextOut]_vars

\* -------------------------------------------- a BufferedFileInput alone --
\* io = [kind, h, op, closes, F, pos, at, assoc, origin, released, called, arg,
\* ret, data]: h the handle, F the content of the file behind its
\* descriptor and pos the kernel's offset of that descriptor; op the last
\* member call and closes the closes it ends a run of (at most 2), arg its
\* arguments, ret and data what it handed back;
\* released that it called ::close and called that it reached ::open.  at
\* is the position of the sequential stream as the caller knows it (-1: not
\* known), assoc whether the caller has a descriptor associated (open or
\* attach since the last close), origin how the descriptor was obtained,
\* sought that the call is a read that directly follows a successful seek.
FileOf(path) == IF path = 1 THEN <<1, 2, 3, 4, 5, 6, 7, 8, 9, 10, 11>>
                ELSE <<21, 22, 23, 24, 25, 26, 27, 28, 29>>
ReadSizes == {0, 1, 3, 9, 12}
SeekOffsets == {-1, 0, 3, 8, 11, 12}
PreadSizes == {0, 3, 8, 12, 16}
PreadOffsets == {-8, -3, 0, 5, 8, 16}
NoArg == [n |-> 0, offset |-> 0, aligned |-> FALSE]

\* buffered_file_input.h:53-56
InNew ==
    /\ io.kind = "none" /\ files = << >> /\ last.op = "none"
    /\ io' = [kind |-> "in", h |-> In_new(k_sector_size), op |-> "new", closes |-> 0,
              F |-> << >>, pos |-> 0, at |-> -1, assoc |-> FALSE,
              origin |-> "none", released |-> FALSE, called |-> FALSE,
              arg |-> NoArg, ret |-> 0, data |-> << >>, sought |-> FALSE]
    /\ UNCHANGED <<files, fpos, ctx, last, junk, disk, thr>>

InOpen ==
    /\ io.kind = "in"
    /\ \E path \in {1, 2}, use_direct_io \in BOOLEAN, sys_open \in {0, 3} :
       \E r \in {In_open(io.h, use_direct_io, sys_open)} :
          io' = [io EXCEPT !.h = r.in, !.op = "open", !.closes = 0,
                    !.F = IF r.ret = 0 THEN FileOf(path) ELSE io.F,
                    !.pos = IF r.ret = 0 THEN 0 ELSE io.pos,
                    !.at = IF r.ret = 0 THEN 0 ELSE io.at,
                    !.assoc = io.assoc \/ r.ret = 0,
                    !.origin = IF r.ret = 0 THEN "open" ELSE io.origin,
                    !.released = FALSE, !.called = r.called, !.arg = NoArg,
                    !.ret = r.ret, !.data = << >>, !.sought = FALSE]
    /\ UNCHANGED <<files, fpos, ctx, last, junk, disk, thr>>

\* The descriptor of a DataFileMetadata (data_file_metadata.h:18-25), at an
\* offset the handle does not know.
InPassFd ==
    /\ io.kind = "in"
    /\ \E use_direct_io \in BOOLEAN :
          io' = [io EXCEPT !.h = passFd(io.h, 4, use_direct_io), !.op = "passFd",
                    !.closes = 0, !.F = FileOf(2), !.pos = 0, !.at = -1,
                    !.assoc = TRUE, !.origin = "passFd", !.released = FALSE,
                    !.called = FALSE, !.arg = NoArg, !.ret = 0, !.data = << >>,
                    !.sought = FALSE]
    /\ UNCHANGED <<files, fpos, ctx, last, junk, disk, thr>>

InRead ==
    /\ io.kind = "in"
    /\ \E bytes_to_read \in ReadSizes :
       \E r \in {In_read(io.h, io.F, io.pos, bytes_to_read)} :
          io' = [io EXCEPT !.h = r.in, !.op = "read", !.closes = 0,
                    !.pos = r.fpos,
                    !.at = IF io.at < 0 \/ r.ret < 0 THEN io.at
                           ELSE io.at + r.ret,
                    !.released = FALSE, !.called = FALSE,
                    !.arg = [NoArg EXCEPT !.n = bytes_to_read, !.offset = io.at],
                    !.ret = r.ret, !.data = r.data,
                    !.sought = (io.op = "seek" /\ io.ret >= 0)]
    /\ UNCHANGED <<files, fpos, ctx, last, junk, disk, thr>>

InSeek ==
    /\ io.kind = "in"
    /\ \E offset \in SeekOffsets :
       \E r \in {In_seek(io.h, io.F, io.pos, offset)} :
          io' = [io EXCEPT !.h = r.in, !.op = "seek", !.closes = 0,
                    !.pos = r.fpos,
                    !.at = IF r.ret < 0 THEN io.at ELSE offset,
                    !.released = FALSE, !.called = FALSE,
                    !.arg = [NoArg EXCEPT !.offset = offset],
                    !.ret = r.ret, !.data = << >>, !.sought = FALSE]
    /\ UNCHANGED <<files, fpos, ctx, last, junk, disk, thr>>

InPread ==
    /\ io.kind = "in"
    /\ \E bytes_to_read \in PreadSizes, offset \in PreadOffsets,
          user_aligned \in BOOLEAN :
       \E r \in {In_pread(io.h, io.F, user_aligned, bytes_to_read, offset)} :
          io' = [io EXCEPT !.h = r.in, !.op = "pread", !.closes = 0,
                    !.at = IF r.fallback THEN -1 ELSE io.at,
                    !.released = FALSE, !.called = FALSE,
                    !.arg = [n |-> bytes_to_read, offset |-> offset,
                             aligned |-> user_aligned],
                    !.ret = r.ret, !.data = r.data, !.sought = FALSE]
    /\ UNCHANGED <<files, fpos, ctx, last, junk, disk, thr>>

\* buffered_file_input.h:102-111; ::close succeeds.
InClose ==
    /\ io.kind = "in"
    /\ io' = [io EXCEPT !.h = In_close(io.h), !.op = "close", !.closes = Min(io.closes + 1, 2),
                 !.at = -1, !.assoc = FALSE,
                 !.origin = IF In_closes(io.h) THEN "none" ELSE io.origin,
                 !.released = In_closes(io.h), !.called = FALSE, !.arg = NoArg,
                 !.ret = 0, !.data = << >>, !.sought = FALSE]
    /\ UNCHANGED <<files, fpos, ctx, last, junk, disk, thr>>

NextIO ==
    \/ OutNew \/ OutOpen \/ OutWrite \/ OutClose
    \/ InNew \/ InOpen \/ InPassFd \/ InRead \/ InSeek \/ InClose
SpecIO == Init /\ [][NextIO]_vars

NextPread == InNew \/ InOpen \/ InPassFd \/ InRead \/ InPread
SpecPread == Init /\ [][NextPread]_vars

\* ---------------------------------------------- a PageIterator alone --
\* io = [kind, b, f, op, ret, loaded, walk]: b the iterator, f the data
\* file behind its handle, op the last member call and ret what it
\* returned; loaded tells whether that call read a page and got all of it
\* from the kernel, walk whether the iterator was placed on an entry of
\* the file by init and moved by inc and dec only since.
IterFiles == {write(kvs, junk, junk) :
                 kvs \in {s \in HighBatches : \A i \in DOMAIN s : s[i]._k = <<5>>}}
IndexOffset(f) == Wrap(f.byte_size - PagesOf(f.entries_count) * IndexPageSize)
\* Whether the kernel hands back the whole of page page_id of f.
FullPage(f, page_id) ==
    Len(sys_pread(f.content, IndexPageSize,
                  Wrap(IndexOffset(f) + page_id * IndexPageSize))) = IndexPageSize

\* bucket.cpp:14 on a fresh ReadContext
IterNew ==
    /\ io.kind = "none" /\ files = << >> /\ last.op = "none"
    /\ \E f \in IterFiles :
          io' = [kind |-> "iter", b |-> ReadContext(junk)._index_iterator, f |-> f,
                 op |-> "new", ret |-> FALSE, loaded |-> FALSE, walk |-> FALSE]
    /\ UNCHANGED <<files, fpos, ctx, last, junk, disk, thr>>

IterInit ==
    /\ io.kind = "iter"
    /\ \E page_for_entry \in 0..MaxBatch :
       \E r \in {init(io.b, io.f.content, page_for_entry, IndexOffset(io.f),
                      io.f.entries_count)} :
          io' = [io EXCEPT !.b = r.b, !.op = "init", !.ret = r.ret,
                    !.loaded = FullPage(io.f, page_for_entry \div k_entries_num),
                    !.walk = page_for_entry < io.f.entries_count]
    /\ UNCHANGED <<files, fpos, ctx, last, junk, disk, thr>>

IterSetPageId ==
    /\ io.kind = "iter" /\ io.op # "new"
    /\ \E page_id \in 0..PagesOf(MaxBatch) :
       \E r \in {setPageId(io.b, io.f.content, page_id)} :
          io' = [io EXCEPT !.b = r.b, !.op = "setPageId", !.ret = r.ret,
                    !.loaded = FullPage(io.f, page_id), !.walk = FALSE]
    /\ UNCHANGED <<files, fpos, ctx, last, junk, disk, thr>>

IterInc ==
    /\ io.kind = "iter" /\ io.op # "new"
    /\ \E r \in {inc(io.b, io.f.content)} :
          io' = [io EXCEPT !.b = r.b, !.op = "inc", !.ret = r.ret,
                    !.loaded = r.b._page_id # io.b._page_id
                               /\ FullPage(io.f, r.b._page_id)]
    /\ UNCHANGED <<files, fpos, ctx, last, junk, disk, thr>>

IterDec ==
    /\ io.kind = "iter" /\ io.op # "new"
    /\ \E r \in {dec(io.b, io.f.content)} :
          io' = [io EXCEPT !.b = r.b, !.op = "dec", !.ret = r.ret,
                    !.loaded = r.b._page_id # io.b._page_id
                               /\ FullPage(io.f, r.b._page_id)]
    /\ UNCHANGED <<files, fpos, ctx, last, junk, disk, thr>>

NextIter == IterNew \/ IterInit \/ IterSetPageId \/ IterInc \/ IterDec
SpecIter == Init /\ [][NextIter]_vars

\* --------------------------------------------------- a server session --
\* io = [kind, op, sent, recvd, raw, pending, completed, strand,
\* _read_buffer, values, delivered, appended]: the client has sent the first
\* sent bytes of Stream and the session's reads have taken recvd of them; raw
\* is _read_buffer_raw; pending tells that an async_read_some is outstanding,
\* completed is the length of a read whose completion handler has not run yet
\* (-1: none), strand the lengths captured by the handlers posted to _strand
\* and not yet run, values the number of values handed to process.
\* delivered lists the bytes the completed reads received and appended the
\* bytes the strand handlers added to _read_buffer, each in order.
\* server.h:105 (std::array<char, 4096>), scaled
RawSize == 2
\* A byte that ends a value (the "\r\n" of resp3_parser.h:100-112).
IsEnd(b) == b >= 10
\* What the client sends: the values <<1, 2>> and <<3>>, each with its end.
Stream == <<1, 2, 10, 3, 11>>

\* server.h:41-57: the parse loop consumes every complete value at the front
\* of the buffer; an incomplete one is left (resp3_parser.h:94-96).
Ends(buf) == {i \in DOMAIN buf : IsEnd(buf[i])}
Consumed(buf) == IF Ends(buf) = {} THEN 0
                 ELSE CHOOSE i \in Ends(buf) : \A j \in Ends(buf) : j <= i

\* server.h:24-28: the constructor leaves _read_buffer_raw as the memory was;
\* start() issues the first read.
SessionStart ==
    /\ io.kind = "none" /\ files = << >> /\ last.op = "none"
    /\ io' = [kind |-> "session", op |-> "start", sent |-> 0, recvd |-> 0,
              raw |-> Fill(RawSize, junk), pending |-> TRUE, completed |-> -1,
              strand |-> << >>, _read_buffer |-> << >>, values |-> 0,
              delivered |-> << >>, appended |-> << >>]
    /\ UNCHANGED <<files, fpos, ctx, last, junk, disk, thr>>

\* The client writes more of the stream to the connection.
ClientSend ==
    /\ io.kind = "session" /\ io.sent < Len(Stream)
    /\ \E n \in 1..(Len(Stream) - io.sent) :
          io' = [io EXCEPT !.op = "send", !.sent = io.sent + n]
    /\ UNCHANGED <<files, fpos, ctx, last, junk, disk, thr>>

\* server.h:33-34: the outstanding async_read_some receives length bytes
\* into _read_buffer_raw, at its start or on any io_context thread later.
Receive ==
    /\ io.kind = "session" /\ io.pending /\ io.recvd < io.sent
    /\ \E length \in 1..Min(RawSize, io.sent - io.recvd) :
       \E chunk \in {SubSeq(Stream, io.recvd + 1, io.recvd + length)} :
          io' = [io EXCEPT !.op = "receive", !.recvd = io.recvd + length,
                    !.raw = chunk \o SubSeq(io.raw, length + 1, RawSize),
                    !.pending = FALSE, !.completed = length,
                    !.delivered = io.delivered \o chunk]
    /\ UNCHANGED <<files, fpos, ctx, last, junk, disk, thr>>

\* server.h:35-59, the completion handler with no error: it posts the copy
\* to _strand and calls doRead().
Complete ==
    /\ io.kind = "session" /\ io.completed # -1
    /\ io' = [io EXCEPT !.op = "complete",
                 !.strand = Append(io.strand, io.completed),
                 !.completed = -1, !.pending = TRUE]
    /\ UNCHANGED <<files, fpos, ctx, last, junk, disk, thr>>

\* server.h:37-57, the handler posted to _strand; the strand runs its
\* handlers one at a time in the order they were posted.
StrandRun ==
    /\ io.kind = "session" /\ io.strand # << >>
    /\ \E copied \in {SubSeq(io.raw, 1, Head(io.strand))} :
       \E buf \in {io._read_buffer \o copied} :
          io' = [io EXCEPT !.op = "strand", !.strand = Tail(io.strand),
                    !._read_buffer = SubSeq(buf, Consumed(buf) + 1, Len(buf)),
                    !.values = io.values + Cardinality(Ends(buf)),
                    !.appended = io.appended \o copied]
    /\ UNCHANGED <<files, fpos, ctx, last, junk, disk, thr>>

NextSession == SessionStart \/ ClientSend \/ Receive \/ Complete \/ StrandRun
SpecSession == Init /\ [][NextSession]_vars

\* ------------------------------------------------ reading a file back --
RoundUp(n) == ((n + k_sector_size - 1) \div k_sector_size) * k_sector_size

\* The serialized size of a record (spec 4.4) and of a batch.
RecordSize(kv) == 2 + Len(kv._k) + Len(kv._v)
RECURSIVE BatchSize(_)
BatchSize(kvs) ==
    IF kvs = << >> THEN 0 ELSE RecordSize(Head(kvs)) + BatchSize(Tail(kvs))

\* Where the last PagesOf(entries_count) pages of a file begin.
IndexStart(f) == Len(f.content) - PagesOf(f.entries_count) * IndexPageSize
\* Page p (0-based) of a file, and entry e (0-based) of its index.
FilePage(f, p) ==
    SubSeq(f.content, IndexStart(f) + p * IndexPageSize + 1,
           IndexStart(f) + (p + 1) * IndexPageSize)
FileEntry(f, e) == PageEntry(FilePage(f, e \div k_entries_num), e % k_entries_num)
\* The number of valid entries of page p.
ValidIn(f, p) == Min(k_entries_num, f.entries_count - p * k_entries_num)

\* The record that starts at cell off of the record region.
RecordAt(content, off) ==
    LET key_len   == content[off + 1]
        value_len == content[off + 2 + key_len]
    IN  [_k |-> SubSeq(content, off + 2, off + 1 + key_len),
         _v |-> SubSeq(content, off + 3 + key_len, off + 2 + key_len + value_len)]

\* ------------------------------------------------------------ claims --
Holds(f, k) == \E i \in DOMAIN f.kvs : f.kvs[i]._k = k
FromFile(f) == {j \in DOMAIN last.result : last.from[j] = f}

\* C1: after one insert of a batch R, a read of the key of any record r of R
\* returns a result from that file with r's key and r's value.
C1_RoundTrip ==
    (last.op = "read" /\ Len(files) = 1) =>
        \A i \in DOMAIN files[1].kvs :
            files[1].kvs[i]._k = last.key =>
                \E j \in FromFile(1) :
                    /\ last.result[j]._k = last.key
                    /\ last.result[j]._v = files[1].kvs[i]._v

\* C2: a read returns exactly one result for each file that contains the
\* key and none for the others, in the files' insertion order.
C2_OnePerFile ==
    last.op = "read" =>
        last.from = SelectSeq([f \in 1..Len(files) |-> f],
                              LAMBDA f : Holds(files[f], last.key))

\* C3: a read returns no result from a file that does not contain the key,
\* whether the key's hash is absent from the file or collides with a stored
\* record's hash.
C3_NoForeignResult ==
    last.op = "read" =>
        \A j \in DOMAIN last.result :
            /\ Holds(files[last.from[j]], last.key)
            /\ last.result[j]._k = last.key

\* The index entries of file f (0-based positions) whose hash is h.
Matching(f, h) == {e \in 0..(f.entries_count - 1) : FileEntry(f, e)._hash = h}

\* C4: getHashOffsets leaves in context._result exactly the offsets of the
\* index entries whose hash equals the target, each once.
C4_AllOffsets ==
    last.op = "read" =>
        \A f \in DOMAIN files :
            LET found == last.logs[f].offsets
                want  == Matching(files[f], hasher(last.key))
            IN  /\ Len(found) = Cardinality(want)
                /\ {found[i] : i \in DOMAIN found} =
                   {FileEntry(files[f], e)._offset : e \in want}

\* C5: in every file, post_hashes[i] of page p is the hash of the last valid
\* entry of page p+i+1 when that page exists, and pre_hashes[i] of page p is
\* the hash of the first entry of page p-i-1 when p-i-1 >= 0.
C5_Fences ==
    \A f \in DOMAIN files :
        \A p \in 0..(PagesOf(files[f].entries_count) - 1), i \in 0..(k_hashes_num - 1) :
            /\ p + i + 1 < PagesOf(files[f].entries_count) =>
                   PagePost(FilePage(files[f], p), i) =
                   PageEntry(FilePage(files[f], p + i + 1),
                             ValidIn(files[f], p + i + 1) - 1)._hash
            /\ p - i - 1 >= 0 =>
                   PagePre(FilePage(files[f], p), i) =
                   PageEntry(FilePage(files[f], p - i - 1), 0)._hash

\* C6: in every file the index entries are in non-decreasing hash order,
\* each entry's offset is the position of its record's key_len field in the
\* record region, and the offsets increase strictly in index order.
C6_IndexOrder ==
    \A f \in DOMAIN files :
        LET n == files[f].entries_count IN
        /\ \A e \in 0..(n - 2) :
              /\ FileEntry(files[f], e)._hash <= FileEntry(files[f], e + 1)._hash
              /\ FileEntry(files[f], e)._offset < FileEntry(files[f], e + 1)._offset
        /\ \A e \in 0..(n - 1) :
              LET ent == FileEntry(files[f], e)
                  rec == RecordAt(files[f].content, ent._offset)
              IN  /\ ent._offset = BatchSize(SubSeq(files[f].kvs, 1, e))
                  /\ ent._offset + RecordSize(files[f].kvs[e + 1]) <= IndexStart(files[f])
                  /\ rec._k = files[f].kvs[e + 1]._k
                  /\ rec._v = files[f].kvs[e + 1]._v
                  /\ ent._hash = hasher(rec._k)
C6_Witness ==
    \E f \in DOMAIN files :
        /\ files[f].entries_count = 5
        /\ \E e \in 0..3 : FileEntry(files[f], e)._hash = FileEntry(files[f], e + 1)._hash
        /\ \E e \in 0..3 : FileEntry(files[f], e)._hash < FileEntry(files[f], e + 1)._hash

\* C7: a file of N records whose serialized sizes sum to S has size
\* RoundUp(S) + PagesOf(N) * k_sector_size; the cells between S and
\* RoundUp(S) are zero, the first index page starts at RoundUp(S), and the
\* index_offset Bucket::read computes is RoundUp(S).
C7_FileSize ==
    /\ \A f \in DOMAIN files :
          LET S == BatchSize(files[f].kvs)
              N == files[f].entries_count
          IN  /\ files[f].byte_size = RoundUp(S) + PagesOf(N) * k_sector_size
              /\ Len(files[f].content) = files[f].byte_size
              /\ \A c \in (S + 1)..RoundUp(S) : files[f].content[c] = 0
              /\ S % k_sector_size = 0 => RoundUp(S) = S
              /\ N >= 1 =>
                    files[f].content[RoundUp(S) + 2 * k_hashes_num + 1] =
                    files[f].kvs[1]._hash
    /\ last.op = "read" =>
          \A f \in DOMAIN files :
              last.logs[f].index_offset = RoundUp(BatchSize(files[f].kvs))
C7_Witness ==
    /\ last.op = "read"
    /\ \E f \in DOMAIN files :
          /\ files[f].entries_count = 1
          /\ files[f].byte_size = 2 * k_sector_size
          /\ last.logs[f].index_offset = k_sector_size

\* C8: during getHashOffsets on page p of a file of pages_num pages,
\* post_hashes[i] is read only when p+i+1 < pages_num and pre_hashes[i] only
\* when i < p.
C8_FencesInFile ==
    last.op = "read" =>
        \A f \in DOMAIN files :
            \A s \in last.logs[f].fence :
                /\ s[1] = "post" => s[2] + s[3] + 1 < last.logs[f].pages_num
                /\ s[1] = "pre"  => s[3] < s[2]

\* C9: every position at which Bucket::write reads the sorted record array
\* while it fills the fences lies in [0, N).
C9_FenceSources ==
    /\ last.op # "crash"
    /\ \A f \in DOMAIN files :
          \A pos \in files[f].reads : pos < files[f].entries_count

\* C10: for a file with entries_num = 0, getHashOffsets produces an empty
\* result whatever the target hash and the content of the ReadContext.
C10_EmptyFile ==
    last.op = "read" =>
        \A f \in DOMAIN files :
            files[f].entries_count = 0 => last.logs[f].offsets = << >>

\* C11: for a target hash below every hash of the file or above every hash
\* of the file, getHashOffsets comes back with an empty result.
C11_OutOfRange ==
    last.op = "read" =>
        \A f \in DOMAIN files :
            LET h  == hasher(last.key)
                hs == {files[f].kvs[i]._hash : i \in DOMAIN files[f].kvs}
            IN  (hs # {} /\ ((\A x \in hs : h < x) \/ (\A x \in hs : h > x))) =>
                    last.logs[f].offsets = << >>

\* C12: a lookup in which the read of an index page failed or came back
\* short takes no candidate offset from the page buffer.
C12_LoadFailureStops ==
    last.op = "read" =>
        \A f \in DOMAIN files :
            last.logs[f].short => last.logs[f].offsets = << >>

\* C13: no file whose Bucket::write met a failing kernel write is in the
\* bucket's file list.
C13_NoFileAfterFailure ==
    \A f \in DOMAIN files : ~files[f].write_failed

\* C14: the insert that finds n files registered writes n.data only; every
\* registered file holds on disk what it held when it was sealed, the files
\* not yet reached are untouched, and a step appends at most one entry to
\* the file list and changes none.
C14_SealedFiles ==
    /\ [](/\ \A f \in DOMAIN files :
               files[f].path = f - 1 /\ disk[f] = files[f].content
          /\ \A n \in (Len(files) + 2)..MaxFiles : disk[n] = << >>)
    /\ [][/\ Len(files') \in {Len(files), Len(files) + 1}
          /\ SubSeq(files', 1, Len(files)) = files
          /\ \A n \in 1..MaxFiles : n # Len(files) + 1 => disk'[n] = disk[n]]_vars
C14_Witness ==
    /\ Len(files) = MaxFiles
    /\ last.op = "read"
    /\ last.result # << >>

\* C15: a Bucket::read that ran concurrently with another one, each with its
\* own ReadContext, returns what it returns when it runs alone.
C15_ReadersIndependent ==
    \A t \in DOMAIN thr :
        thr[t].pc = "done" =>
            thr[t].result =
                Bucket_read(OnDisk, ReadContext(junk), fpos, thr[t].k, junk).result

\* C16: after one successful open, writes that all succeeded and a
\* successful close, the file holds the written bytes in order and nothing
\* else, and its length is total_bytes_written_, with and without direct I/O.
C16_OutputContent ==
    [][(/\ io.kind = "out" /\ io.h.open /\ io.opens = 1 /\ io.ok
        /\ io'.op = "close" /\ io'.n = io.n + 1 /\ io'.h.ret = 0) =>
           /\ io'.h.file = io.written
           /\ Len(io'.h.file) = io.h.total
           /\ io'.h.total = io.h.total]_vars
C16_Witness ==
    /\ io.kind = "out" /\ io.op = "close" /\ io.opens = 1 /\ io.ok /\ io.h.ret = 0
    /\ io.h.direct
    /\ Len(io.written) > io.h.buffer_size
    /\ Len(io.written) % k_sector_size # 0

\* C17: a read of n bytes on a handle with a descriptor, whose stream is at
\* a known position (the start after open, o after seek(o), moved on by
\* every read), hands back the bytes of the file from that position, n of
\* them or as many as remain, and returns their number.
C17_SequentialRead ==
    (io.kind = "in" /\ io.op = "read" /\ io.h.fd # 0 /\ io.arg.offset >= 0) =>
        /\ io.data = sys_pread(io.F, io.arg.n, io.arg.offset)
        /\ io.ret = Len(io.data)

\* C18: with direct_io enabled, pread hands back what the kernel's pread of
\* the same size and offset on the same file hands back, bytes and count.
C18_PreadAsKernel ==
    (io.kind = "in" /\ io.op = "pread" /\ io.h.fd # 0 /\ io.h.direct) =>
        /\ io.ret = sys_pread_at(io.F, io.arg.n, io.arg.offset).ret
        /\ io.data = sys_pread_at(io.F, io.arg.n, io.arg.offset).data

\* C19: a close that follows a close issues no system call and returns 0,
\* on an input and on an output handle; the close of an input handle calls
\* ::close exactly when the handle's descriptor was obtained by open and is
\* not yet released, never for a descriptor attached with passFd, and
\* returns 0.
C19_CloseIdempotent ==
    [][/\ (io.kind = "in" /\ io'.op = "close") =>
              /\ io'.released <=> io.origin = "open"
              /\ io'.ret = 0
              /\ io.op = "close" => ~io'.released
              /\ io.origin = "passFd" => io'.h.fd = io.h.fd
       /\ (io.kind = "out" /\ io.op = "close" /\ io'.op = "close"
           /\ io'.n = io.n + 1) =>
              /\ io'.h.sys = io.h.sys
              /\ io'.h.ret = 0]_vars
C19_Witness ==
    /\ io.kind = "in" /\ io.op = "close" /\ io.closes = 2
    /\ io.h.owner /\ io.h.fd = 0 /\ ~io.released

\* C20: open on a handle that has a descriptor associated returns -1 and
\* changes nothing of the handle; open on a handle that has none (never
\* opened or attached, or closed since) gets as far as ::open.
C20_OpenWhenOpen ==
    [][/\ (io.kind = "in" /\ io'.op = "open") =>
              /\ io.assoc => (io'.ret = -1 /\ io'.h = io.h)
              /\ ~io.assoc => io'.called
       /\ (io.kind = "out" /\ io'.op = "open" /\ io'.n = io.n + 1) =>
              /\ io.h.open => io'.h = [io.h EXCEPT !.ret = -1]
              /\ ~io.h.open => io'.h.sys = io.h.sys + 1]_vars

\* The hash of the last valid entry of page q of file f.
LastHash(f, q) == PageEntry(FilePage(f, q), ValidIn(f, q) - 1)._hash

\* C21: every round of the forward skip moves the iterator on by p + 1
\* pages, p the first of the H scanned post_hashes slots that is >= the
\* target, or by H pages when there is none; no round ends the lookup, and
\* no round moves past the first page whose last hash is >= the target.
C21_ForwardSkip ==
    last.op = "read" =>
        \A f \in DOMAIN files :
            \A i \in DOMAIN last.logs[f].skips :
                LET s == last.logs[f].skips[i] IN
                s.dir = "post" =>
                    /\ s.to # -1
                    /\ s.to = s.page_id + (IF s.p < s.H THEN s.p + 1 ELSE s.H)
                    /\ \A q \in 0..(s.to - 1) :
                           q < PagesOf(files[f].entries_count) =>
                               LastHash(files[f], q) < hasher(last.key)

\* The hash of the first entry of page q of file f.
FirstHash(f, q) == PageEntry(FilePage(f, q), 0)._hash
\* The last page of f whose first hash is <= h, page 0 when there is none.
LandingPage(f, h) ==
    LET below == {q \in 0..(PagesOf(f.entries_count) - 1) : FirstHash(f, q) <= h}
    IN  IF below = {} THEN 0 ELSE CHOOSE q \in below : \A r \in below : r <= q

\* C22: in a file with entries, the backward skip ends on the last page
\* whose first hash is <= the target (page 0 when there is none); a round
\* returns only when the target is below the first hash of every page in
\* front of it; and the binary search on the page the skip ended on chooses
\* an entry with the target's hash when the page has one.
C22_BackwardSkip ==
    last.op = "read" =>
        \A f \in DOMAIN files :
            LET log == last.logs[f]
                h   == hasher(last.key)
            IN  files[f].entries_count >= 1 =>
                /\ log.landed # -1 => log.landed = LandingPage(files[f], h)
                /\ \A i \in DOMAIN log.skips :
                       (log.skips[i].dir = "pre" /\ log.skips[i].to = -1) =>
                           \A q \in 0..(log.skips[i].page_id - 1) :
                               h < FirstHash(files[f], q)
                /\ (log.bot # -1 /\ log.landed = LandingPage(files[f], h)) =>
                       ((\E j \in 0..(ValidIn(files[f], log.landed) - 1) :
                            PageEntry(FilePage(files[f], log.landed), j)._hash = h)
                        => PageEntry(FilePage(files[f], log.landed), log.bot)._hash = h)

\* C23: init and setPageId return TRUE when the page was read in full and
\* FALSE when it was not.
C23_LoadResult ==
    (io.kind = "iter" /\ io.op \in {"init", "setPageId"}) => io.ret = io.loaded

\* The global position of an iterator.
Position(b) == b._page_id * k_entries_num + b.curr

\* C24: on an iterator placed by init on an entry of the file and moved by
\* inc and dec only, inc returns TRUE and moves the position on by one
\* unless it is the last entry, where it returns FALSE and leaves the
\* position; dec does the same backwards and returns FALSE at entry 0; after
\* the call _size is the number of valid entries of page _page_id and the
\* page buffer holds that page.
C24_IncDec ==
    [][(io.kind = "iter" /\ io.walk /\ io'.op \in {"inc", "dec"}) =>
          /\ io'.op = "inc" =>
                IF Position(io.b) + 1 < io.f.entries_count
                THEN io'.ret /\ Position(io'.b) = Position(io.b) + 1
                ELSE ~io'.ret /\ Position(io'.b) = Position(io.b)
          /\ io'.op = "dec" =>
                IF Position(io.b) > 0
                THEN io'.ret /\ Position(io'.b) = Position(io.b) - 1
                ELSE ~io'.ret /\ Position(io'.b) = Position(io.b)
          /\ io'.b._size = ValidIn(io.f, io'.b._page_id)
          /\ io'.b.curr < io'.b._size
          /\ io'.b.page = FilePage(io.f, io'.b._page_id)]_vars
C24_Witness ==
    /\ io.kind = "iter" /\ io.walk /\ io.op = "inc" /\ io.ret
    /\ io.b._page_id = 2 /\ io.b.curr = 0 /\ io.b._size = 1

\* C25: after every BufferedFileOutput::write that returns success the
\* bounce buffer is not full and total_bytes_written_ is the number of bytes
\* handed to the kernel plus current_buffer_pos_; every ::write issued by
\* write is the entire buffer, and under direct I/O every ::write, the padded
\* one of close included, has a length that is a multiple of k_sector_size and
\* starts at a sector-aligned file offset.
C25_WriteInvariant ==
    io.kind = "out" =>
       /\ (io.op = "write" /\ io.h.ret >= 0) =>
              /\ Len(io.h.buf) < io.h.buffer_size
              /\ io.h.total = Len(io.h.file) + Len(io.h.buf)
       /\ io.op = "write" =>
              \A i \in DOMAIN io.h.kw : io.h.kw[i].len = io.h.buffer_size
       /\ io.h.direct =>
              \A i \in DOMAIN io.h.kw : /\ io.h.kw[i].len % k_sector_size = 0
                                        /\ io.h.kw[i].at % k_sector_size = 0
\* C26: a pread that takes the unaligned fallback path under direct I/O
\* leaves the sequential state empty (no valid bytes, cursor at the start of
\* the buffer); a pread that delegates to the kernel (no direct I/O, or
\* user buffer, offset and size all sector-aligned and size > 0) leaves the
\* bounce buffer, the cursor and the valid bytes as they were; no pread moves
\* the kernel's file offset of the descriptor.
Delegates(in, arg) ==
    \/ ~in.direct
    \/ arg.aligned /\ IsAligned(arg.offset) /\ arg.n % k_sector_size = 0 /\ arg.n > 0
C26_PreadFrame ==
    [][(io.kind = "in" /\ io'.op = "pread" /\ io.h.fd # 0) =>
          /\ io'.pos = io.pos
          /\ Delegates(io.h, io'.arg) => io'.h = io.h
          /\ ~Delegates(io.h, io'.arg) => (io'.h.buf = << >> /\ io'.h.cur = 0)]_vars
\* C27: a seek(o, SEEK_SET) that succeeds returns o, with and without direct
\* I/O, also for o at or past the end of the file; the read that follows
\* returns the bytes of the file from offset o on (none at or past the end);
\* with direct I/O the kernel read that refills the buffer starts at the
\* multiple of k_sector_size at or below o and the cursor stands o minus that
\* multiple into the buffer.
C27_Seek ==
    /\ (io.kind = "in" /\ io.op = "seek" /\ io.ret >= 0) =>
           /\ io.ret = io.arg.offset
           /\ io.h.direct =>
                 /\ io.pos = AlignDown(io.arg.offset)
                        + Len(sys_pread(io.F, io.h.buffer_size, AlignDown(io.arg.offset)))
                 /\ IF io.arg.offset < Len(io.F)
                    THEN /\ io.h.buf = sys_pread(io.F, io.h.buffer_size,
                                                 AlignDown(io.arg.offset))
                         /\ io.h.cur = io.arg.offset - AlignDown(io.arg.offset)
                    ELSE Len(io.h.buf) - io.h.cur = 0
    /\ (io.kind = "in" /\ io.op = "read" /\ io.sought) =>
           /\ io.data = sys_pread(io.F, io.arg.n, io.arg.offset)
           /\ io.ret = Len(io.data)
C27_Witness ==
    /\ io.kind = "in" /\ io.op = "read" /\ io.sought /\ io.h.direct
    /\ io.arg.offset = 3 /\ io.arg.n = 9
    /\ io.data = <<4, 5, 6, 7, 8, 9, 10, 11>>
\* C28: in a getHashOffsets call on a file with at least one entry the
\* estimated landing entry is below entries_num, and whenever an entry or a
\* fence of the loaded page is read the iterator stands on a page of the
\* index (page_id < pages_num), its size is
\* min(k_entries_num, entries_num - page_id * k_entries_num) and the entry
\* read is below that size.
C28_ReadsInRange ==
    last.op = "read" =>
        \A f \in DOMAIN files :
            files[f].entries_count >= 1 =>
                /\ Estimate(files[f].entries_count, hasher(last.key))
                       < files[f].entries_count
                /\ \A r \in last.logs[f].reads :
                       /\ r.page_id < r.pages_num
                       /\ r.pages_num = PagesOf(files[f].entries_count)
                       /\ r.size = Min(k_entries_num,
                                       files[f].entries_count - r.page_id * k_entries_num)
                       /\ r.entry < r.size
                /\ \A s \in last.logs[f].fence :
                       s[2] < PagesOf(files[f].entries_count)
\* C29: with a ReadContext reused across the files of a Bucket::read and
\* across Bucket::read calls, every readString of a key starts after a seek
\* that succeeded and emptied the buffer: no byte buffered from another file
\* or position is left, the descriptor stands at the candidate offset, and the
\* key read is the one a fresh handle reads at that offset of the current
\* file.
C29_NoStaleBytes ==
    last.op = "read" =>
        \A f \in DOMAIN files :
            \A i \in DOMAIN last.logs[f].cands :
                LET c == last.logs[f].cands[i] IN
                /\ c.seek = c.offset
                /\ c.buffered = << >>
                /\ c.at = c.offset
\* C30: the bytes of every completed async_read_some are appended to the
\* session's parse buffer exactly once and in arrival order, whatever the
\* order in which reads, completion handlers and strand handlers run; the
\* bytes of an incomplete value stay in the parse buffer.
RECURSIVE Pending(_)
Pending(q) == IF q = << >> THEN 0 ELSE Head(q) + Pending(Tail(q))
C30_ArrivalOrder ==
    io.kind = "session" =>
       /\ io.appended = SubSeq(io.delivered, 1, Len(io.appended))
       /\ Len(io.appended) + Pending(io.strand)
             + (IF io.completed = -1 THEN 0 ELSE io.completed) = Len(io.delivered)
       /\ io._read_buffer = SubSeq(io.appended, Consumed(io.appended) + 1,
                                   Len(io.appended))
====
